---- MODULE Spec2Model ----
(***************************************************************************)
(* A model of pandas-gradebook-project/plotting-summary-statistics/        *)
(* gradebook.py: the script that joins the roster, the homework/exam       *)
(* table and the quiz tables, scores every category, computes the final    *)
(* score and its letter grade, and writes one report per section.          *)
(*                                                                         *)
(* The script is one straight-line batch run; pc is its position.          *)
(* Numbers are exact rationals <<n, d>> (d > 0, lowest terms) plus the     *)
(* not-a-number value <<0, 0>>; binary floating-point rounding is not      *)
(* modelled.  Strings are sequences of ASCII codes, so that str.lower is   *)
(* a computation and not the identity.                                     *)
(***************************************************************************)
EXTENDS Integers, Sequences, FiniteSets, TLC

VARIABLES pc, roster_csv, hw_csv, quiz_csv,
          roster, hw_exam_grades, quiz_grades,
          final_data, printed, written

vars == <<pc, roster_csv, hw_csv, quiz_csv, roster, hw_exam_grades,
          quiz_grades, final_data, printed, written>>

----------------------------------------------------------------------------
(* Bounds of the model *)

MaxStudents == 2

MaxHomework == 2

MaxCeiling == 104

----------------------------------------------------------------------------
(* Numbers: exact rationals and NaN *)

NaN == <<0, 0>>

IsNaN(x) == x[2] = 0

Abs(n) == IF n < 0 THEN -n ELSE n

RECURSIVE Gcd(_, _)
Gcd(a, b) == IF b = 0 THEN a ELSE Gcd(b, a % b)

\* n/d in lowest terms with a positive denominator; 0/0 is NaN
Rat(n, d) ==
    IF d = 0 THEN <<(IF n > 0 THEN 1 ELSE IF n < 0 THEN -1 ELSE 0), 0>>
    ELSE LET g == Gcd(Abs(n), Abs(d))
             s == IF d < 0 THEN -1 ELSE 1
         IN  <<(s * n) \div g, (s * d) \div g>>

Num(n) == <<n, 1>>

RAdd(a, b) ==
    IF IsNaN(a) \/ IsNaN(b) THEN NaN
    ELSE Rat(a[1] * b[2] + b[1] * a[2], a[2] * b[2])

RMul(a, b) ==
    IF IsNaN(a) \/ IsNaN(b) THEN NaN
    ELSE Rat(a[1] * b[1], a[2] * b[2])

\* pandas float division: 0/0 is NaN
RDiv(a, b) ==
    IF IsNaN(a) \/ IsNaN(b) THEN NaN
    ELSE Rat(a[1] * b[2], a[2] * b[1])

\* a >= b; every comparison with NaN is false
RGeq(a, b) ==
    /\ ~IsNaN(a)
    /\ ~IsNaN(b)
    /\ a[1] * b[2] >= b[1] * a[2]

\* DataFrame.fillna(0) on one cell
FillNa(x) == IF IsNaN(x) THEN Num(0) ELSE x

\* DataFrame.sum(axis=1) on one row: NaN cells are skipped (skipna=True),
\* an empty or all-NaN row sums to 0
RECURSIVE SumSkipNa(_)
SumSkipNa(s) ==
    IF s = <<>> THEN Num(0)
    ELSE IF IsNaN(Head(s)) THEN SumSkipNa(Tail(s))
    ELSE RAdd(Head(s), SumSkipNa(Tail(s)))

\* DataFrame.max(axis=1) on one row: NaN cells are skipped, all-NaN is NaN
RECURSIVE MaxSkipNa(_)
MaxSkipNa(s) ==
    IF s = <<>> THEN NaN
    ELSE LET m == MaxSkipNa(Tail(s))
         IN  IF IsNaN(Head(s)) THEN m
             ELSE IF IsNaN(m) THEN Head(s)
             ELSE IF RGeq(Head(s), m) THEN Head(s) ELSE m

\* A variant that rounds down (np.floor)
CeilAsFloor(x) ==
    IF IsNaN(x) THEN NaN
    ELSE Num(x[1] \div x[2])

\* np.ceil: the smallest integer >= x; NaN stays NaN
Ceil(x) ==
    IF IsNaN(x) THEN NaN
    ELSE Num(-((-x[1]) \div x[2]))

----------------------------------------------------------------------------
(* Strings: sequences of ASCII codes *)

LowerChar(c) == IF c >= 65 /\ c <= 90 THEN c + 32 ELSE c

\* str.lower
Lower(s) == [i \in DOMAIN s |-> LowerChar(s[i])]

UpperChar(c) == IF c >= 97 /\ c <= 122 THEN c - 32 ELSE c

Upper(s) == [i \in DOMAIN s |-> UpperChar(s[i])]

----------------------------------------------------------------------------
(* Program constants *)

n_exams == 3

\* quiz_max_points, indexed by the quiz number n of column "Quiz n"
quiz_max_points == <<11, 15, 17, 14, 12>>

\* weightings, in index order: Exam 1..3 Score, Quiz Score, Homework Score
weightings ==
    [Exam_Score |-> <<Rat(5, 100), Rat(10, 100), Rat(15, 100)>>,
     Quiz_Score |-> Rat(30, 100),
     Homework_Score |-> Rat(40, 100)]

\* grades, in insertion order (the order grades.items() iterates in)
grades == << <<90, "A">>, <<80, "B">>, <<70, "C">>, <<60, "D">>, <<0, "F">> >>

----------------------------------------------------------------------------
(* The input files: what the three kinds of CSV file may hold *)

Persons == 1 .. MaxStudents

PersonSeq == [p \in 1 .. MaxStudents |-> p]

\* The login name and the e-mail address of person p, in lower case:
\* "a", "b", ... and "a@", "b@", ...
NetIdOf(p) == <<96 + p>>

EmailOf(p) == <<96 + p, 64>>

Styled(s, upper) == IF upper THEN Upper(s) ELSE s

\* Possible points of homework i and of exam k (positive: the source
\* schema's precondition), and a partial quiz grade
HwMaxPoints(i) == i + 1

ExamMaxPoints(k) == 10

QuizPartial(q) == 7

\* The names of person p: sorting by (Last Name, First Name) reverses
\* the file order, and the first name breaks ties
LastNameOf(p) == (MaxStudents - p) \div 2

FirstNameOf(p) == (MaxStudents - p) % 2

\* One person's part of the input.  upper: the roster spells the login
\* name and the e-mail address in upper case and the other files in lower
\* case (otherwise the other way round).  quiz[q] is the person's grade in
\* quiz file q, or -1 when the person has no row in that file.
RosterRow(p, c) ==
    [NetID |-> Styled(NetIdOf(p), c.upper),
     Email_Address |-> Styled(EmailOf(p), c.upper),
     Section |-> c.section]

\* The homework/exam file has no "Email Address" column: with one, the
\* first merge would rename both and line 49 would find neither.
HwRow(p, c) ==
    [SID |-> Styled(NetIdOf(p), ~c.upper),
     First_Name |-> FirstNameOf(p),
     Last_Name |-> LastNameOf(p),
     Homework |-> c.homework,
     Homework_Max |-> [i \in DOMAIN c.homework |-> HwMaxPoints(i)],
     Exam |-> c.exam,
     Exam_Max |-> [k \in 1 .. n_exams |-> ExamMaxPoints(k)]]

QuizRow(p, c, q) ==
    [Email |-> Styled(EmailOf(p), ~c.upper), Grade |-> c.quiz[q]]

RosterFile(ch) ==
    LET sel == SelectSeq(PersonSeq, LAMBDA p : ch[p].inRoster)
    IN  [i \in 1 .. Len(sel) |-> RosterRow(sel[i], ch[sel[i]])]

HwFile(ch) ==
    LET sel == SelectSeq(PersonSeq, LAMBDA p : ch[p].inHw)
    IN  [i \in 1 .. Len(sel) |-> HwRow(sel[i], ch[sel[i]])]

QuizFile(ch, q) ==
    LET sel == SelectSeq(PersonSeq, LAMBDA p : ch[p].quiz[q] >= 0)
    IN  [i \in 1 .. Len(sel) |-> QuizRow(sel[i], ch[sel[i]], q)]

FullHomework(nhw) == [i \in 1 .. nhw |-> HwMaxPoints(i)]

FullExam == [k \in 1 .. n_exams |-> ExamMaxPoints(k)]

NoExam == [k \in 1 .. n_exams |-> 0]

\* The course has the quizzes of quiz_max_points; a run finds the files of
\* the first nq of them
NumQuizzes == Len(quiz_max_points)

\* Inputs that vary who is in which file and how the keys are spelled:
\* <<in roster, in homework/exam file, upper, section, quiz files>>.
\* What is never read is not varied.
JoinShapes ==
    { x \in BOOLEAN \X BOOLEAN \X BOOLEAN \X {1, 2} \X {"none", "first", "all"} :
        /\ (x[1] /\ x[2]) \/ (x[4] = 1 /\ x[5] = "all")
        /\ (x[1] \/ x[2]) \/ ~x[3] }

\* Odd persons have full marks, even persons none.
JoinChoice(p, x, nhw, nq) ==
    [inRoster |-> x[1], inHw |-> x[2], upper |-> x[3], section |-> x[4],
     homework |-> IF p % 2 = 1 THEN FullHomework(nhw) ELSE [i \in 1 .. nhw |-> 0],
     exam |-> IF p % 2 = 1 THEN FullExam ELSE NoExam,
     quiz |-> [q \in 1 .. nq |->
                 IF x[5] = "none" \/ (x[5] = "first" /\ q > 1) THEN -1
                 ELSE IF p % 2 = 1 THEN quiz_max_points[q] ELSE 0]]

JoinInputs ==
    { [nq |-> NumQuizzes,
       ch |-> [p \in Persons |-> JoinChoice(p, sh[p], MaxHomework, NumQuizzes)]] :
      sh \in [Persons -> JoinShapes] }

\* Inputs that vary the points of person 1; the other persons are in every
\* file with full marks.  hw[i]: no points, full points, or (first homework
\* only) full points and one point of extra credit; ex: full points in the first ex exams and
\* k points in every later exam k; qz[q]: no row in the file, a partial
\* grade (first quiz only) or the full grade.
ScoreChoice(p, hw, ex, qz) ==
    IF p = 1
    THEN [inRoster |-> TRUE, inHw |-> TRUE, upper |-> TRUE, section |-> 1,
          homework |-> [i \in DOMAIN hw |->
                          IF hw[i] = 0 THEN 0 ELSE HwMaxPoints(i) + hw[i] - 1],
          exam |-> [k \in 1 .. n_exams |->
                      IF k <= ex THEN ExamMaxPoints(k) ELSE k],
          quiz |-> [q \in DOMAIN qz |->
                      IF qz[q] = 0 THEN -1
                      ELSE IF qz[q] = 1 THEN QuizPartial(q)
                      ELSE quiz_max_points[q]]]
    ELSE [inRoster |-> TRUE, inHw |-> TRUE, upper |-> FALSE, section |-> 1,
          homework |-> FullHomework(Len(hw)), exam |-> FullExam,
          quiz |-> [q \in DOMAIN qz |-> quiz_max_points[q]]]

ScoreInputs ==
    UNION { { [nq |-> nq, ch |-> [p \in Persons |-> ScoreChoice(p, hw, ex, qz)]] :
              hw \in { f \in [1 .. nhw -> {0, 1, 2}] :
                          \A i \in 2 .. nhw : f[i] # 2 },
              ex \in 0 .. n_exams,
              qz \in { f \in [1 .. nq -> {0, 1, 2}] :
                          \A q \in 2 .. nq : f[q] # 1 } } :
            nhw \in 0 .. MaxHomework, nq \in 1 .. NumQuizzes }

\* Every input of the model: the files of one run
Inputs == JoinInputs \cup ScoreInputs

----------------------------------------------------------------------------
(* The state before the script's first statement: the files on disk *)

Init ==
    /\ \E in \in Inputs :
         /\ roster_csv = RosterFile(in.ch)
         /\ hw_csv = HwFile(in.ch)
         /\ quiz_csv = [q \in 1 .. in.nq |-> QuizFile(in.ch, q)]
    /\ pc = "read"
    /\ roster = <<>>
    /\ hw_exam_grades = <<>>
    /\ quiz_grades = [columns |-> {}, rows |-> <<>>]
    /\ final_data = <<>>
    /\ printed = <<>>
    /\ written = <<>>

----------------------------------------------------------------------------
(* Lines 19-42: reading the files *)

InSeq(x, s) == \E i \in DOMAIN s : s[i] = x

\* pd.read_csv of one quiz file, renamed: rows [Email, Grade]
ReadQuiz(file) ==
    [i \in 1 .. Len(file) |->
       [Email |-> Lower(file[i].Email), Grade |-> Num(file[i].Grade)]]

\* pd.concat([quiz_grades, quiz], axis=1) for the quiz named q: an outer
\* join on the index; a cell with no source is NaN
ConcatQuiz(qg, quiz, q) ==
    LET cols == qg.columns \cup {q}
        old == [i \in 1 .. Len(qg.rows) |->
                  LET e == qg.rows[i].Email
                      hit == { j \in 1 .. Len(quiz) : quiz[j].Email = e }
                  IN  [Email |-> e,
                       Quiz |-> [c \in cols |->
                                   IF c = q
                                   THEN IF hit = {} THEN NaN
                                        ELSE quiz[CHOOSE j \in hit : TRUE].Grade
                                   ELSE qg.rows[i].Quiz[c]]]]
        new == SelectSeq(quiz,
                 LAMBDA r : ~ \E i \in 1 .. Len(qg.rows) : qg.rows[i].Email = r.Email)
        add == [i \in 1 .. Len(new) |->
                  [Email |-> new[i].Email,
                   Quiz |-> [c \in cols |-> IF c = q THEN new[i].Grade ELSE NaN]]]
    IN  [columns |-> cols, rows |-> old \o add]

\* The loop over the quiz files, taken in the order 1, 2, ...
RECURSIVE ReadQuizzes(_, _)
ReadQuizzes(files, n) ==
    IF n = 0 THEN [columns |-> {}, rows |-> <<>>]
    ELSE ConcatQuiz(ReadQuizzes(files, n - 1), ReadQuiz(files[n]), n)

ReadRoster(file) ==
    [i \in 1 .. Len(file) |->
       [NetID |-> Lower(file[i].NetID),
        Email_Address |-> Lower(file[i].Email_Address),
        Section |-> file[i].Section]]

ReadHwExam(file) ==
    [i \in 1 .. Len(file) |->
       [SID |-> Lower(file[i].SID),
        First_Name |-> file[i].First_Name,
        Last_Name |-> file[i].Last_Name,
        Homework |-> [k \in DOMAIN file[i].Homework |-> Num(file[i].Homework[k])],
        Homework_Max |-> [k \in DOMAIN file[i].Homework_Max |->
                            Num(file[i].Homework_Max[k])],
        Exam |-> [k \in DOMAIN file[i].Exam |-> Num(file[i].Exam[k])],
        Exam_Max |-> [k \in DOMAIN file[i].Exam_Max |-> Num(file[i].Exam_Max[k])]]]

ReadSources ==
    /\ pc = "read"
    /\ roster' = ReadRoster(roster_csv)
    /\ hw_exam_grades' = ReadHwExam(hw_csv)
    /\ quiz_grades' = ReadQuizzes(quiz_csv, Len(quiz_csv))
    /\ pc' = "merge"
    /\ UNCHANGED <<roster_csv, hw_csv, quiz_csv, final_data, printed, written>>

----------------------------------------------------------------------------
(* Lines 44-52: the two merges and fillna *)

\* The row pairs <<i, j>> of an inner join with equal keys, in the order
\* of the left keys and, for one left key, of the right keys
RECURSIVE MatchPairs(_, _, _)
MatchPairs(lkeys, rkeys, i) ==
    IF i > Len(lkeys) THEN <<>>
    ELSE SelectSeq([j \in 1 .. Len(rkeys) |-> <<i, j>>],
                   LAMBDA pr : rkeys[pr[2]] = lkeys[i])
         \o MatchPairs(lkeys, rkeys, i + 1)

\* pd.merge(roster, hw_exam_grades, left_index=True, right_index=True)
MergeRosterHw(ro, hw) ==
    LET pairs == MatchPairs([i \in 1 .. Len(ro) |-> ro[i].NetID],
                            [j \in 1 .. Len(hw) |-> hw[j].SID], 1)
    IN  [n \in 1 .. Len(pairs) |->
           LET l == ro[pairs[n][1]]
               r == hw[pairs[n][2]]
           IN  [NetID |-> l.NetID,
                Section |-> l.Section,
                Email_Address |-> l.Email_Address,
                First_Name |-> r.First_Name,
                Last_Name |-> r.Last_Name,
                Homework |-> r.Homework,
                Homework_Max |-> r.Homework_Max,
                Exam |-> r.Exam,
                Exam_Max |-> r.Exam_Max]]

\* pd.merge(final_data, quiz_grades, left_on="Email Address", right_index=True)
MergeQuiz(fd, qg) ==
    LET pairs == MatchPairs([i \in 1 .. Len(fd) |-> fd[i].Email_Address],
                            [j \in 1 .. Len(qg.rows) |-> qg.rows[j].Email], 1)
    IN  [n \in 1 .. Len(pairs) |->
           fd[pairs[n][1]] @@ [Quiz |-> qg.rows[pairs[n][2]].Quiz]]

\* final_data.fillna(0) on one row
FillNaRow(r) ==
    [r EXCEPT !.Homework = [k \in DOMAIN @ |-> FillNa(@[k])],
              !.Homework_Max = [k \in DOMAIN @ |-> FillNa(@[k])],
              !.Exam = [k \in DOMAIN @ |-> FillNa(@[k])],
              !.Exam_Max = [k \in DOMAIN @ |-> FillNa(@[k])],
              !.Quiz = [c \in DOMAIN @ |-> FillNa(@[c])]]

MergeSources ==
    /\ pc = "merge"
    /\ LET m1 == MergeRosterHw(roster, hw_exam_grades)
           m2 == MergeQuiz(m1, quiz_grades)
       IN  final_data' = [i \in 1 .. Len(m2) |-> FillNaRow(m2[i])]
    /\ pc' = "exams"
    /\ UNCHANGED <<roster_csv, hw_csv, quiz_csv, roster, hw_exam_grades,
                   quiz_grades, printed, written>>

----------------------------------------------------------------------------
(* Lines 54-58: the exam scores *)

ExamScoreRow(r) ==
    r @@ [Exam_Score |-> [n \in 1 .. n_exams |-> RDiv(r.Exam[n], r.Exam_Max[n])]]

ExamScores ==
    /\ pc = "exams"
    /\ final_data' = [i \in 1 .. Len(final_data) |-> ExamScoreRow(final_data[i])]
    /\ pc' = "homework"
    /\ UNCHANGED <<roster_csv, hw_csv, quiz_csv, roster, hw_exam_grades,
                   quiz_grades, printed, written>>

----------------------------------------------------------------------------
(* Lines 60-73: the homework score *)

\* The series of lines 63-64, one row's entry
sum_of_hw_scores(r) == SumSkipNa(r.Homework)

sum_of_hw_max(r) == SumSkipNa(r.Homework_Max)

TotalHomework(r) == RDiv(sum_of_hw_scores(r), sum_of_hw_max(r))

\* Lines 67-69: the maximum columns relabelled by position, the ratios
\* summed and divided by the number of homework columns
OverallHomework(r) ==
    RDiv(SumSkipNa([k \in DOMAIN r.Homework |->
                      RDiv(r.Homework[k], r.Homework_Max[k])]),
         Num(Len(r.Homework)))

HomeworkScoreRow(r) ==
    LET t == TotalHomework(r)
        o == OverallHomework(r)
    IN  r @@ [Total_Homework |-> t,
              Overall_Homework |-> o,
              Homework_Score |-> MaxSkipNa(<<t, o>>)]

HomeworkScores ==
    /\ pc = "homework"
    /\ final_data' = [i \in 1 .. Len(final_data) |-> HomeworkScoreRow(final_data[i])]
    /\ pc' = "quizzes"
    /\ UNCHANGED <<roster_csv, hw_csv, quiz_csv, roster, hw_exam_grades,
                   quiz_grades, printed, written>>

----------------------------------------------------------------------------
(* Lines 76-90: the quiz score *)

\* The elements of a finite set of integers in increasing order
RECURSIVE SortedSeq(_)
SortedSeq(S) ==
    IF S = {} THEN <<>>
    ELSE LET m == CHOOSE x \in S : \A y \in S : x <= y
         IN  <<m>> \o SortedSeq(S \ {m})

\* Line 83
TotalQuizzes(r) == RDiv(sum_of_hw_scores(r), sum_of_hw_max(r))

\* Line 85: quiz_scores / quiz_max_points aligns the columns with the
\* index of the series; a label only one of them has gives a NaN column
QuizRatios(r) ==
    LET labels == SortedSeq(DOMAIN r.Quiz \cup DOMAIN quiz_max_points)
    IN  [n \in 1 .. Len(labels) |->
           LET c == labels[n]
           IN  IF c \in DOMAIN r.Quiz /\ c \in DOMAIN quiz_max_points
               THEN RDiv(r.Quiz[c], Num(quiz_max_points[c]))
               ELSE NaN]

\* Line 86
OverallQuizzes(r) ==
    RDiv(SumSkipNa(QuizRatios(r)), Num(Cardinality(DOMAIN r.Quiz)))

QuizScoreRow(r) ==
    LET t == TotalQuizzes(r)
        o == OverallQuizzes(r)
    IN  r @@ [Total_Quizzes |-> t,
              Overall_Quizzes |-> o,
              Quiz_Score |-> MaxSkipNa(<<t, o>>)]

QuizScores ==
    /\ pc = "quizzes"
    /\ final_data' = [i \in 1 .. Len(final_data) |-> QuizScoreRow(final_data[i])]
    /\ pc' = "final"
    /\ UNCHANGED <<roster_csv, hw_csv, quiz_csv, roster, hw_exam_grades,
                   quiz_grades, printed, written>>

----------------------------------------------------------------------------
(* Lines 92-105: the final score and its ceiling *)

\* Lines 102-104: the five columns times their weights, summed along the
\* row (a NaN product is skipped by the sum)
FinalScore(r) ==
    SumSkipNa([n \in 1 .. n_exams |->
                 RMul(r.Exam_Score[n], weightings.Exam_Score[n])]
              \o <<RMul(r.Quiz_Score, weightings.Quiz_Score),
                   RMul(r.Homework_Score, weightings.Homework_Score)>>)

\* Line 105
CeilingScore(fs) == Ceil(RMul(fs, Num(100)))

FinalScoreRow(r) ==
    LET fs == FinalScore(r)
    IN  r @@ [Final_Score |-> fs, Ceiling_Score |-> CeilingScore(fs)]

FinalScores ==
    /\ pc = "final"
    /\ final_data' = [i \in 1 .. Len(final_data) |-> FinalScoreRow(final_data[i])]
    /\ pc' = "grades"
    /\ UNCHANGED <<roster_csv, hw_csv, quiz_csv, roster, hw_exam_grades,
                   quiz_grades, printed, written>>

----------------------------------------------------------------------------
(* Lines 107-125: the letter grade *)

\* A variant of the loop that tests value > key
RECURSIVE GradeFromStrict(_, _)
GradeFromStrict(value, n) ==
    IF n > Len(grades) THEN "None"
    ELSE IF RGeq(value, Num(grades[n][1])) /\ value # Num(grades[n][1])
         THEN grades[n][2]
    ELSE GradeFromStrict(value, n + 1)

\* The loop of grade_mapping from entry n on; "None" when it falls through
RECURSIVE GradeFrom(_, _)
GradeFrom(value, n) ==
    IF n > Len(grades) THEN "None"
    ELSE IF RGeq(value, Num(grades[n][1])) THEN grades[n][2]
    ELSE GradeFrom(value, n + 1)

grade_mapping(value) == GradeFrom(value, 1)

\* A variant with the categories in the opposite order
GradeCategoriesReversed ==
    [n \in 1 .. Len(grades) |-> grades[Len(grades) + 1 - n][2]]

\* categories=grades.values(), ordered=True: the order of the categories
\* is their order in grades
GradeCategories == [n \in 1 .. Len(grades) |-> grades[n][2]]

\* pd.Categorical of one value: a value that is no category becomes NaN
Categorical(letter) == IF InSeq(letter, GradeCategories) THEN letter ELSE "NaN"

\* The code of a category: its position in the ordered categories, from 0;
\* -1 for NaN.  The ordered type compares grades by this code.
CategoryCode(g) ==
    IF InSeq(g, GradeCategories)
    THEN (CHOOSE n \in 1 .. Len(GradeCategories) : GradeCategories[n] = g) - 1
    ELSE -1

FinalGradeRow(r) ==
    r @@ [Final_Grade |-> Categorical(grade_mapping(r.Ceiling_Score))]

LetterGrades ==
    /\ pc = "grades"
    /\ final_data' = [i \in 1 .. Len(final_data) |-> FinalGradeRow(final_data[i])]
    /\ pc' = "sections"
    /\ UNCHANGED <<roster_csv, hw_csv, quiz_csv, roster, hw_exam_grades,
                   quiz_grades, printed, written>>

----------------------------------------------------------------------------
(* Lines 127-131: one report per section *)

\* (Last Name, First Name) of a is not after that of b
NameLeq(a, b) ==
    \/ a.Last_Name < b.Last_Name
    \/ a.Last_Name = b.Last_Name /\ a.First_Name <= b.First_Name

\* sort_values(by=["Last Name", "First Name"]): a stable sort
RECURSIVE InsertSorted(_, _)
InsertSorted(r, s) ==
    IF s = <<>> THEN <<r>>
    ELSE IF NameLeq(r, Head(s)) THEN <<r>> \o s
    ELSE <<Head(s)>> \o InsertSorted(r, Tail(s))

\* A variant that leaves the rows in table order
SortValuesUnsorted(rows) == rows

RECURSIVE SortValues(_)
SortValues(rows) ==
    IF rows = <<>> THEN <<>>
    ELSE InsertSorted(Head(rows), SortValues(Tail(rows)))

\* final_data.groupby("Section"): the groups in increasing key order, each
\* with its rows in table order
GroupBy(fd) ==
    LET keys == SortedSeq({ fd[i].Section : i \in 1 .. Len(fd) })
    IN  [n \in 1 .. Len(keys) |->
           [section |-> keys[n],
            table |-> SelectSeq(fd, LAMBDA r : r.Section = keys[n])]]

\* What the loop prints: section and table.shape[0]
PrintedLines(groups) ==
    [n \in 1 .. Len(groups) |->
       [section |-> groups[n].section, students |-> Len(groups[n].table)]]

\* What the loop writes: the file "Section <section> Grades.csv"
WrittenFiles(groups) ==
    [n \in 1 .. Len(groups) |->
       [section |-> groups[n].section, rows |-> SortValues(groups[n].table)]]

SectionReports ==
    /\ pc = "sections"
    /\ printed' = PrintedLines(GroupBy(final_data))
    /\ written' = WrittenFiles(GroupBy(final_data))
    /\ pc' = "done"
    /\ UNCHANGED <<roster_csv, hw_csv, quiz_csv, roster, hw_exam_grades,
                   quiz_grades, final_data>>

----------------------------------------------------------------------------
(* Lines 122-125 alone, applied to a table of two given ceiling scores *)

InitGrade ==
    /\ \E a \in 0 .. MaxCeiling, b \in 0 .. MaxCeiling :
         final_data = <<[NetID |-> NetIdOf(1), Ceiling_Score |-> Num(a)],
                        [NetID |-> NetIdOf(2), Ceiling_Score |-> Num(b)]>>
    /\ pc = "grades"
    /\ roster_csv = <<>>
    /\ hw_csv = <<>>
    /\ quiz_csv = <<>>
    /\ roster = <<>>
    /\ hw_exam_grades = <<>>
    /\ quiz_grades = [columns |-> {}, rows |-> <<>>]
    /\ printed = <<>>
    /\ written = <<>>

NextGrade == LetterGrades

SpecGrade == InitGrade /\ [][NextGrade]_vars

----------------------------------------------------------------------------
(* The script: lines 133-152 only draw and change none of the data *)

Next ==
    \/ ReadSources
    \/ MergeSources
    \/ ExamScores
    \/ HomeworkScores
    \/ QuizScores
    \/ FinalScores
    \/ LetterGrades
    \/ SectionReports

Spec == Init /\ [][Next]_vars

\* The runs whose homework/exam file has at least one homework column
InitRegular ==
    /\ Init
    /\ \A i \in DOMAIN hw_csv : Len(hw_csv[i].Homework) > 0

SpecRegular == InitRegular /\ [][Next]_vars

----------------------------------------------------------------------------
(* Properties *)

\* Which columns final_data has at each position of the script
Merged == pc \notin {"read", "merge"}

HasQuizScore == pc \in {"final", "grades", "sections", "done"}

HasFinalScore == pc \in {"grades", "sections", "done"}

HasFinalGrade == pc \in {"sections", "done"}

Rows == { final_data[i] : i \in DOMAIN final_data }

RecordsOf(key) == { i \in DOMAIN final_data : final_data[i].NetID = key }

RosterKeys == { Lower(roster_csv[i].NetID) : i \in DOMAIN roster_csv }

HwKeys == { Lower(hw_csv[i].SID) : i \in DOMAIN hw_csv }

QuizEmails ==
    UNION { { Lower(quiz_csv[q][i].Email) : i \in DOMAIN quiz_csv[q] } :
            q \in DOMAIN quiz_csv }

\* C1: a student whose case-folded identity key is in both the roster and
\* the homework/exam file has exactly one record in final_data; a student
\* whose key is missing from either has none.
C1_OneRecordPerMatchedStudent ==
    Merged =>
      \A k \in RosterKeys \cup HwKeys :
        IF k \in RosterKeys /\ k \in HwKeys
        THEN Cardinality(RecordsOf(k)) = 1
        ELSE RecordsOf(k) = {}

\* C6: a student of the roster and the homework/exam file who has no row in
\* any quiz file still has a record, with every quiz field zero.
C6_NoQuizRowsStillRecorded ==
    Merged =>
      \A i \in DOMAIN roster_csv :
        LET k == Lower(roster_csv[i].NetID)
        IN  (k \in HwKeys /\ Lower(roster_csv[i].Email_Address) \notin QuizEmails)
            => \E n \in RecordsOf(k) :
                 \A c \in DOMAIN final_data[n].Quiz : final_data[n].Quiz[c] = Num(0)

\* The two scoring policies as the specification words them, on the earned
\* and the possible points of a category's items
RECURSIVE Sum(_)
Sum(s) == IF s = <<>> THEN Num(0) ELSE RAdd(Head(s), Sum(Tail(s)))

TotalPointsPolicy(earned, possible) == RDiv(Sum(earned), Sum(possible))

AverageOfRatiosPolicy(earned, possible) ==
    RDiv(Sum([i \in DOMAIN earned |-> RDiv(earned[i], possible[i])]),
         Num(Len(earned)))

\* The quiz items of a row: earned points in column order, and the possible
\* points of those columns from the fixed table
QuizEarned(r) ==
    LET cols == SortedSeq(DOMAIN r.Quiz) IN [n \in 1 .. Len(cols) |-> r.Quiz[cols[n]]]

QuizPossible(r) ==
    LET cols == SortedSeq(DOMAIN r.Quiz)
    IN  [n \in 1 .. Len(cols) |-> Num(quiz_max_points[cols[n]])]

\* Sum of the student's quiz points over the sum of the whole fixed table
QuizTableTotal(r) ==
    RDiv(Sum(QuizEarned(r)),
         Sum([q \in DOMAIN quiz_max_points |-> Num(quiz_max_points[q])]))

\* C2: the homework score and the quiz score are each at least the
\* category's total-points value and its average-of-ratios value.
C2_MaxSelectionLaw ==
    HasQuizScore =>
      \A r \in Rows :
        /\ RGeq(r.Homework_Score, TotalPointsPolicy(r.Homework, r.Homework_Max))
        /\ RGeq(r.Homework_Score, AverageOfRatiosPolicy(r.Homework, r.Homework_Max))
        /\ RGeq(r.Quiz_Score, QuizTableTotal(r))
        /\ RGeq(r.Quiz_Score, AverageOfRatiosPolicy(QuizEarned(r), QuizPossible(r)))

\* C7: Total Quizzes is the sum of the student's quiz points divided by the
\* sum of the maximum points of the fixed quiz table.
C7_TotalQuizzesFromQuizData ==
    HasQuizScore => \A r \in Rows : r.Total_Quizzes = QuizTableTotal(r)

\* C3: the final score is 0.05, 0.10, 0.15, 0.40 and 0.30 times the three
\* exam scores, the homework score and the quiz score of the same row,
\* added up; and the five weights add up to 1.
C3_WeightedSumLaw ==
    /\ Sum(weightings.Exam_Score
           \o <<weightings.Homework_Score, weightings.Quiz_Score>>) = Num(1)
    /\ HasFinalScore =>
         \A r \in Rows :
           r.Final_Score =
             Sum(<<RMul(Rat(5, 100), r.Exam_Score[1]),
                   RMul(Rat(10, 100), r.Exam_Score[2]),
                   RMul(Rat(15, 100), r.Exam_Score[3]),
                   RMul(Rat(40, 100), r.Homework_Score),
                   RMul(Rat(30, 100), r.Quiz_Score)>>)

\* C9: no category score is not-a-number, and no final score, ceiling or
\* grade is computed from one (the script has no way of reporting it).
C9_DegenerateCategoryGuarded ==
    /\ HasQuizScore =>
         \A r \in Rows : ~IsNaN(r.Homework_Score) /\ ~IsNaN(r.Quiz_Score)
    /\ HasFinalScore =>
         \A r \in Rows :
           /\ ~IsNaN(r.Total_Homework)
           /\ ~IsNaN(r.Overall_Homework)
           /\ ~IsNaN(r.Overall_Quizzes)

InUnit(x) == RGeq(x, Num(0)) /\ RGeq(Num(1), x)

CategoryScoresInUnit(r) ==
    /\ \A n \in 1 .. n_exams : InUnit(r.Exam_Score[n])
    /\ InUnit(r.Homework_Score)
    /\ InUnit(r.Quiz_Score)

\* C8: the ceiling score is the smallest integer >= 100 times the final
\* score, and it is between 0 and 100 when the five category scores are
\* all in [0, 1].
C8_CeilingPercentage ==
    HasFinalScore =>
      \A r \in Rows :
        LET x == RMul(r.Final_Score, Num(100))
            c == r.Ceiling_Score
        IN  /\ c[2] = 1
            /\ RGeq(c, x)
            /\ ~RGeq(Num(c[1] - 1), x)
            /\ CategoryScoresInUnit(r) => (c[1] >= 0 /\ c[1] <= 100)

\* C8's case: a row with all category scores in [0, 1] whose final score
\* times 100 is no integer, so that the ceiling rounds up
C8_Witness ==
    /\ HasFinalScore
    /\ \E r \in Rows :
         /\ CategoryScoresInUnit(r)
         /\ RMul(r.Final_Score, Num(100))[2] > 1
         /\ r.Ceiling_Score[1] > 0

\* The rows handed to the report sink: <<file, position>>
Handed ==
    UNION { { <<n, k>> : k \in 1 .. Len(written[n].rows) } : n \in DOMAIN written }

HighestThresholdLetter(v) ==
    LET ok == { n \in DOMAIN grades : grades[n][1] <= v }
        best == CHOOSE n \in ok : \A m \in ok : grades[m][1] <= grades[n][1]
    IN  grades[best][2]

\* C4: for a ceiling score >= 0, grade_mapping returns a letter, that of the
\* highest threshold <= the score; so 90 gives A and 89 gives B.
C4_GradeMappingFirstMatch ==
    /\ \A r \in Rows :
         /\ grade_mapping(r.Ceiling_Score) \in { grades[n][2] : n \in DOMAIN grades }
         /\ grade_mapping(r.Ceiling_Score) = HighestThresholdLetter(r.Ceiling_Score[1])
         /\ HasFinalGrade => r.Final_Grade = HighestThresholdLetter(r.Ceiling_Score[1])
    /\ \A r \in Rows : r.Ceiling_Score = Num(90) => grade_mapping(r.Ceiling_Score) = "A"
    /\ \A r \in Rows : r.Ceiling_Score = Num(89) => grade_mapping(r.Ceiling_Score) = "B"

\* C4's case: a score equal to a threshold and the score just below it,
\* both graded
C4_Witness ==
    /\ HasFinalGrade
    /\ \E a \in Rows, b \in Rows :
         /\ a.Ceiling_Score = Num(90) /\ a.Final_Grade = "A"
         /\ b.Ceiling_Score = Num(89) /\ b.Final_Grade = "B"

\* C5 as claimed: a higher ceiling score never has a lower rank in the
\* ordered grade type.
C5_RankNondecreasing ==
    HasFinalGrade =>
      \A a \in Rows, b \in Rows :
        RGeq(a.Ceiling_Score, b.Ceiling_Score)
          => CategoryCode(a.Final_Grade) >= CategoryCode(b.Final_Grade)

\* C5 amended: the ordered grade type is A < B < C < D < F, so a higher
\* ceiling score never has a higher rank in it.
C5_RankNonincreasing ==
    HasFinalGrade =>
      \A a \in Rows, b \in Rows :
        RGeq(a.Ceiling_Score, b.Ceiling_Score)
          => CategoryCode(a.Final_Grade) <= CategoryCode(b.Final_Grade)

\* C5's case: two graded rows with different grades
C5_Witness ==
    /\ HasFinalGrade
    /\ \E a \in Rows, b \in Rows :
         /\ RGeq(a.Ceiling_Score, b.Ceiling_Score)
         /\ a.Final_Grade = "A"
         /\ b.Final_Grade = "F"

====
